---- MODULE Spec2Model ----
(***************************************************************************)
(* The connection gate of packages/sql-sqlite-expo/src/SqliteClient.ts:    *)
(* one Database Handle, one semaphore of one permit, the statement         *)
(* acquirer, the transaction acquirer and the connection's statement       *)
(* operations, driven by concurrent fibers of the SQL client.              *)
(*                                                                         *)
(* The Effect runtime (fibers, semaphore, scopes, interruption) and the    *)
(* SQL client that calls the acquirers are not part of SqliteClient.ts;    *)
(* they are modelled from the specification: cooperative scheduling on     *)
(* one JavaScript thread, the wait for the permit being the only           *)
(* suspension point of a statement, scopes running each finalizer once.    *)
(***************************************************************************)
EXTENDS Naturals, FiniteSets, Sequences, TLC

\* Number of concurrent callers (fibers) of one client.
NumFibers == 3
\* Largest number of statements one transaction issues.
MaxStmts == 2
\* Effect.makeSemaphore(1)
Permits == 1
\* Number of make(options) calls, each in a scope of its own.
NumMakes == 3
\* Largest number of rows the engine returns for one statement.
MaxRows == 2

Fibers == 1..NumFibers
None == 0
Makes == 1..NumMakes
\* JavaScript's undefined: the connection of a client whose makeConnection
\* returned early, and the value of a key a row does not have.
Undefined == 0

VARIABLES
  taken,          \* semaphore: permits currently taken
  waiters,        \* semaphore: fibers suspended in take(1)
  running,        \* the fiber that occupies the JavaScript thread, or None
  inflight,       \* fibers whose db.getAllSync call has begun and not returned
  pc,             \* position of each fiber
  kind,           \* "stmt": uses acquirer; "txn": uses transactionAcquirer
  interruptible,  \* whether the fiber's current wait may be interrupted
  cancelledAt,    \* position at which the fiber was interrupted, or "none"
  exit,           \* how the fiber's effect ended
  acquires,       \* how often take(1) succeeded for the fiber
  releases,       \* how often release(1) ran on behalf of the fiber
  finalizers,     \* release finalizers registered on the fiber's scope
  calls,          \* engine calls (db.getAllSync) made for the fiber
  issued,         \* engine-backed statements the fiber issued
  engineErr,      \* an engine call of the fiber threw
  streamed,       \* the fiber invoked executeStream
  dbRef,          \* the module-level flag: a handle is believed to be open
  open,           \* engine handles that are open
  opened,         \* handles openDatabaseSync has returned so far
  openCalls,      \* calls of openDatabaseSync so far
  mk,             \* each make call: not run, its scope live, failed or closed
  conn,           \* the handle behind each client's connection, or Undefined
  fin,            \* the close finalizer is pending on the make call's scope
  skipped,        \* the make call found dbRef set
  closeRuns,      \* how often the close finalizer of the make call has run
  closeThrew,     \* db.closeSync threw in the make call's close finalizer
  raised,         \* a close finalizer raised
  yielded,        \* what the client's acquirers last yielded
  fnPhase,        \* statement operations as functions: "idle", "input", "done"
  fnIn,           \* their arguments and the engine's answer
  fnOut           \* their results

vars == <<taken, waiters, running, inflight, pc, kind, interruptible,
          cancelledAt, exit, acquires, releases, finalizers, calls, issued,
          engineErr, streamed, dbRef, open, opened, openCalls, mk, conn, fin,
          skipped, closeRuns, closeThrew, raised, yielded, fnPhase, fnIn, fnOut>>

gateVars == <<taken, waiters, running, inflight, pc, kind, interruptible,
              cancelledAt, exit, acquires, releases, finalizers, calls, issued,
              engineErr, streamed>>
lifeVars == <<dbRef, open, opened, openCalls, mk, conn, fin, skipped, closeRuns,
              closeThrew, raised, yielded>>
fnVars == <<fnPhase, fnIn, fnOut>>
\* What the callers' steps at the gate leave alone.
otherVars == <<lifeVars, fnVars>>

semVars == <<taken, waiters, acquires, releases>>
engVars == <<inflight, calls, issued, engineErr, streamed>>

Kinds == {"stmt", "txn"}
Pcs == {"idle", "take", "waiting", "granted", "taken", "connected",
        "suspended", "ready", "inEngine", "closing", "done"}
Exits == {"none", "success", "fail", "die", "interrupt"}

TypeOK ==
  /\ taken \in 0..NumFibers
  /\ waiters \subseteq Fibers
  /\ running \in Fibers \cup {None}
  /\ inflight \subseteq Fibers
  /\ pc \in [Fibers -> Pcs]
  /\ kind \in [Fibers -> Kinds \cup {"none"}]
  /\ interruptible \in [Fibers -> BOOLEAN]
  /\ cancelledAt \in [Fibers -> {"none", "waiting", "granted", "suspended"}]
  /\ exit \in [Fibers -> Exits]
  /\ acquires \in [Fibers -> 0..1]
  /\ releases \in [Fibers -> 0..2]
  /\ finalizers \in [Fibers -> 0..2]
  /\ calls \in [Fibers -> 0..(MaxStmts + 1)]
  /\ issued \in [Fibers -> 0..MaxStmts]
  /\ engineErr \in [Fibers -> BOOLEAN]
  /\ streamed \in [Fibers -> BOOLEAN]
  /\ dbRef \in BOOLEAN
  /\ open \subseteq 1..NumMakes
  /\ opened \in 0..NumMakes
  /\ openCalls \in 0..NumMakes
  /\ mk \in [Makes -> {"idle", "live", "failed", "closed"}]
  /\ conn \in [Makes -> 0..NumMakes]
  /\ fin \in [Makes -> BOOLEAN]
  /\ skipped \in [Makes -> BOOLEAN]
  /\ closeRuns \in [Makes -> 0..2]
  /\ closeThrew \in [Makes -> BOOLEAN]
  /\ raised \in BOOLEAN
  /\ yielded \in [Makes -> {"none", "undefined", "open", "closed"}]
  /\ fnPhase \in {"idle", "input", "done"}

\* The gate of a new client: the semaphore is full, no caller has started.
GateInit ==
  /\ taken = 0
  /\ waiters = {}
  /\ running = None
  /\ inflight = {}
  /\ pc = [f \in Fibers |-> "idle"]
  /\ kind = [f \in Fibers |-> "none"]
  /\ interruptible = [f \in Fibers |-> TRUE]
  /\ cancelledAt = [f \in Fibers |-> "none"]
  /\ exit = [f \in Fibers |-> "none"]
  /\ acquires = [f \in Fibers |-> 0]
  /\ releases = [f \in Fibers |-> 0]
  /\ finalizers = [f \in Fibers |-> 0]
  /\ calls = [f \in Fibers |-> 0]
  /\ issued = [f \in Fibers |-> 0]
  /\ engineErr = [f \in Fibers |-> FALSE]
  /\ streamed = [f \in Fibers |-> FALSE]

\* No statement operation is being evaluated as a function.
FnIdle ==
  /\ fnPhase = "idle"
  /\ fnIn = <<>>
  /\ fnOut = <<>>

\* State after the first make(options): the handle is open with its close
\* finalizer pending, the semaphore is full, no caller has started.
OneLiveClient ==
  /\ dbRef = TRUE
  /\ open = {1}
  /\ opened = 1
  /\ openCalls = 1
  /\ mk = [m \in Makes |-> IF m = 1 THEN "live" ELSE "idle"]
  /\ conn = [m \in Makes |-> IF m = 1 THEN 1 ELSE Undefined]
  /\ fin = [m \in Makes |-> m = 1]
  /\ skipped = [m \in Makes |-> FALSE]
  /\ closeRuns = [m \in Makes |-> 0]
  /\ closeThrew = [m \in Makes |-> FALSE]
  /\ raised = FALSE
  /\ yielded = [m \in Makes |-> "none"]

Init == GateInit /\ FnIdle /\ OneLiveClient

\* Semaphore: permits that can be taken now.
free == Permits - taken

\* The fiber holds a permit it has not given back.
Holds(f) == acquires[f] > releases[f]

\* The JavaScript thread is inside a synchronous engine call.
JsBlocked == running # None /\ running \in inflight

----------------------------------------------------------------------------
(* The callers: fibers of the SQL client *)

\* A caller starts a statement (k = "stmt") or a transaction (k = "txn").
\* Callers are interchangeable, so they are numbered in the order they start.
Start(f, k) ==
  /\ running = None
  /\ pc[f] = "idle"
  /\ \A g \in Fibers : g < f => pc[g] # "idle"
  /\ running' = f
  /\ kind' = [kind EXCEPT ![f] = k]
  /\ pc' = [pc EXCEPT ![f] = "take"]
  /\ UNCHANGED <<otherVars, semVars, engVars, interruptible, cancelledAt, exit, finalizers>>

----------------------------------------------------------------------------
(* Semaphore *)

\* semaphore.take(1): takes the permit at once when it is free; otherwise the
\* fiber is added to the waiters and suspends. intr: the wait is interruptible.
take(f, intr) ==
  /\ running = f
  /\ pc[f] = "take"
  /\ IF free >= 1
       THEN /\ taken' = taken + 1
            /\ acquires' = [acquires EXCEPT ![f] = @ + 1]
            /\ pc' = [pc EXCEPT ![f] = "taken"]
            /\ UNCHANGED <<waiters, running, interruptible>>
       ELSE /\ waiters' = waiters \cup {f}
            /\ interruptible' = [interruptible EXCEPT ![f] = intr]
            /\ pc' = [pc EXCEPT ![f] = "waiting"]
            /\ running' = None
            /\ UNCHANGED <<taken, acquires>>
  /\ UNCHANGED <<otherVars, engVars, kind, cancelledAt, exit, releases, finalizers>>

\* A released permit is handed to one waiter (no order among waiters is
\* promised); the waiter is then due to resume.
grant(w) ==
  /\ running = None
  /\ w \in waiters
  /\ free >= 1
  /\ taken' = taken + 1
  /\ acquires' = [acquires EXCEPT ![w] = @ + 1]
  /\ waiters' = waiters \ {w}
  /\ pc' = [pc EXCEPT ![w] = "granted"]
  /\ UNCHANGED <<otherVars, engVars, running, kind, interruptible, cancelledAt, exit,
                 releases, finalizers>>

\* The scheduler resumes a fiber that was granted the permit.
resume(w) ==
  /\ running = None
  /\ pc[w] = "granted"
  /\ running' = w
  /\ pc' = [pc EXCEPT ![w] = "taken"]
  /\ UNCHANGED <<otherVars, semVars, engVars, kind, interruptible, cancelledAt, exit, finalizers>>

\* The rest of semaphore.withPermits(1)(self) once the permit is taken:
\* ensuring(restore(self), release(1)) with self = Effect.succeed(connection).
\* The permit is released when self has completed or was interrupted, and
\* only then is the connection yielded to the caller.
withPermitsRelease(f) ==
  /\ running = f
  /\ pc[f] = "taken"
  /\ taken' = taken - 1
  /\ releases' = [releases EXCEPT ![f] = @ + 1]
  /\ IF cancelledAt[f] # "none"
       THEN /\ pc' = [pc EXCEPT ![f] = "closing"]
            /\ exit' = [exit EXCEPT ![f] = "interrupt"]
       ELSE /\ pc' = [pc EXCEPT ![f] = "connected"]
            /\ UNCHANGED exit
  /\ UNCHANGED <<otherVars, engVars, waiters, running, kind, interruptible, cancelledAt,
                 acquires, finalizers>>

\* semaphore.withPermits(1)(Effect.succeed(connection))
withPermits(f) ==
  \/ take(f, TRUE)
  \/ withPermitsRelease(f)

----------------------------------------------------------------------------
(* Scope *)

\* Scope.addFinalizer(scope, semaphore.release(1)), then Effect.as(connection).
\* intr: the step runs in an interruptible region, so a pending interruption
\* ends the fiber before the finalizer is registered.
addFinalizer(f, intr) ==
  /\ running = f
  /\ pc[f] = "taken"
  /\ IF intr /\ cancelledAt[f] # "none"
       THEN /\ pc' = [pc EXCEPT ![f] = "closing"]
            /\ exit' = [exit EXCEPT ![f] = "interrupt"]
            /\ UNCHANGED finalizers
       ELSE /\ finalizers' = [finalizers EXCEPT ![f] = @ + 1]
            /\ IF cancelledAt[f] # "none"
                 THEN /\ pc' = [pc EXCEPT ![f] = "closing"]
                      /\ exit' = [exit EXCEPT ![f] = "interrupt"]
                 ELSE /\ pc' = [pc EXCEPT ![f] = "connected"]
                      /\ UNCHANGED exit
  /\ UNCHANGED <<otherVars, semVars, engVars, running, kind, interruptible, cancelledAt>>

\* The caller's scope closes: every registered finalizer runs once.
closeScope(f) ==
  /\ running = f
  /\ pc[f] = "closing"
  /\ taken' = taken - finalizers[f]
  /\ releases' = [releases EXCEPT ![f] = @ + finalizers[f]]
  /\ finalizers' = [finalizers EXCEPT ![f] = 0]
  /\ pc' = [pc EXCEPT ![f] = "done"]
  /\ running' = None
  /\ UNCHANGED <<otherVars, engVars, waiters, acquires, kind, interruptible, cancelledAt, exit>>

----------------------------------------------------------------------------
(* The acquirers of SqliteClient.ts *)

\* Faulty variant: Effect.succeed(connection), the permit is never asked for.
acquirerNoPermits(f) ==
  /\ kind[f] = "stmt"
  /\ running = f
  /\ pc[f] = "take"
  /\ pc' = [pc EXCEPT ![f] = "connected"]
  /\ UNCHANGED <<otherVars, semVars, engVars, running, kind, interruptible, cancelledAt,
                 exit, finalizers>>

\* Faulty variant: Effect.zipRight(semaphore.take(1), Effect.succeed(connection)),
\* the permit is taken and never given back.
acquirerTakeOnly(f) ==
  /\ kind[f] = "stmt"
  /\ \/ take(f, TRUE)
     \/ /\ running = f
        /\ pc[f] = "taken"
        /\ IF cancelledAt[f] # "none"
             THEN /\ pc' = [pc EXCEPT ![f] = "closing"]
                  /\ exit' = [exit EXCEPT ![f] = "interrupt"]
             ELSE /\ pc' = [pc EXCEPT ![f] = "connected"]
                  /\ UNCHANGED exit
        /\ UNCHANGED <<otherVars, semVars, engVars, running, kind, interruptible,
                       cancelledAt, finalizers>>

\* const acquirer = semaphore.withPermits(1)(Effect.succeed(connection))
acquirer(f) ==
  /\ kind[f] = "stmt"
  /\ withPermits(f)

\* Faulty variant: no Effect.uninterruptibleMask around the hand-off.
transactionAcquirerNoMask(f) ==
  /\ kind[f] = "txn"
  /\ \/ take(f, TRUE)
     \/ addFinalizer(f, TRUE)

\* Faulty variant: semaphore.take(1) without restore, so the wait is masked.
transactionAcquirerNoRestore(f) ==
  /\ kind[f] = "txn"
  /\ \/ take(f, FALSE)
     \/ addFinalizer(f, FALSE)

\* Faulty variant: the statement acquirer's effect used for transactions.
transactionAcquirerWithPermits(f) ==
  /\ kind[f] = "txn"
  /\ withPermits(f)

\* Faulty variant: Effect.as(restore(semaphore.take(1)), connection), no
\* release finalizer is registered.
transactionAcquirerNoFinalizer(f) ==
  /\ kind[f] = "txn"
  /\ \/ take(f, TRUE)
     \/ /\ running = f
        /\ pc[f] = "taken"
        /\ IF cancelledAt[f] # "none"
             THEN /\ pc' = [pc EXCEPT ![f] = "closing"]
                  /\ exit' = [exit EXCEPT ![f] = "interrupt"]
             ELSE /\ pc' = [pc EXCEPT ![f] = "connected"]
                  /\ UNCHANGED exit
        /\ UNCHANGED <<otherVars, semVars, engVars, running, kind, interruptible,
                       cancelledAt, finalizers>>

\* const transactionAcquirer = Effect.uninterruptibleMask((restore) =>
\*   Effect.as(Effect.zipRight(restore(semaphore.take(1)),
\*     Effect.tap(Effect.scope, (scope) =>
\*       Scope.addFinalizer(scope, semaphore.release(1)))), connection))
transactionAcquirer(f) ==
  /\ kind[f] = "txn"
  /\ \/ take(f, TRUE)
     \/ addFinalizer(f, FALSE)

----------------------------------------------------------------------------
(* The connection returned by makeConnection *)

\* The caller holds the connection and may issue a statement on it.
CanCall(f) ==
  /\ running = f
  /\ pc[f] \in {"connected", "ready"}

\* Faulty variant: an asynchronous engine call (await db.getAllAsync), during
\* which the calling fiber gives up the JavaScript thread.
runAsync(f) ==
  /\ inflight' = inflight \cup {f}
  /\ calls' = [calls EXCEPT ![f] = @ + 1]
  /\ pc' = [pc EXCEPT ![f] = "inEngine"]
  /\ running' = None

\* const run = (sql, params = []) =>
\*   Effect.succeed(db.getAllSync(sql, ...params))
\* The engine call is made while the effect is being built and is synchronous:
\* the calling fiber keeps the JavaScript thread until the call returns.
run(f) ==
  /\ inflight' = inflight \cup {f}
  /\ calls' = [calls EXCEPT ![f] = @ + 1]
  /\ pc' = [pc EXCEPT ![f] = "inEngine"]
  /\ UNCHANGED running

\* How the effect built by run ends: Effect.succeed of the rows when
\* db.getAllSync returns; when it throws, the exception escapes run as a thrown
\* JavaScript exception (a defect), since nothing catches it.
runExit(ok) == IF ok THEN "success" ELSE "die"

\* db.getAllSync returns the rows (ok) or throws (~ok).
getAllSyncReturns(f, ok) ==
  /\ pc[f] = "inEngine"
  /\ f \in inflight
  /\ running \in {f, None}
  /\ inflight' = inflight \ {f}
  /\ running' = f
  /\ IF ok
       THEN /\ UNCHANGED engineErr
            /\ IF kind[f] = "stmt"
                 THEN /\ pc' = [pc EXCEPT ![f] = "closing"]
                      /\ exit' = [exit EXCEPT ![f] = runExit(TRUE)]
                 ELSE /\ pc' = [pc EXCEPT ![f] = "connected"]
                      /\ UNCHANGED exit
       ELSE /\ engineErr' = [engineErr EXCEPT ![f] = TRUE]
            /\ pc' = [pc EXCEPT ![f] = "closing"]
            /\ exit' = [exit EXCEPT ![f] = runExit(FALSE)]
  /\ UNCHANGED <<otherVars, semVars, calls, issued, streamed, kind, interruptible,
                 cancelledAt, finalizers>>

\* Faulty variant: execute asks the semaphore for the permit itself,
\* semaphore.withPermits(1)(run(sql, params)).
executeTakingPermit(f) ==
  /\ CanCall(f)
  /\ issued[f] < MaxStmts
  /\ IF free >= 1
       THEN /\ issued' = [issued EXCEPT ![f] = @ + 1]
            /\ run(f)
            /\ UNCHANGED waiters
       ELSE /\ waiters' = waiters \cup {f}
            /\ pc' = [pc EXCEPT ![f] = "waiting"]
            /\ running' = None
            /\ UNCHANGED <<issued, inflight, calls>>
  /\ UNCHANGED <<otherVars, taken, acquires, releases, engineErr, streamed, kind,
                 interruptible, cancelledAt, exit, finalizers>>

\* execute(sql, params, transformRows): run(sql, params), mapped through
\* transformRows when one is given.
execute(f) ==
  /\ CanCall(f)
  /\ issued[f] < MaxStmts
  /\ issued' = [issued EXCEPT ![f] = @ + 1]
  /\ run(f)
  /\ UNCHANGED <<otherVars, semVars, engineErr, streamed, kind, interruptible,
                 cancelledAt, exit, finalizers>>

\* executeRaw(sql, params): run(sql, params)
executeRaw(f) ==
  /\ CanCall(f)
  /\ issued[f] < MaxStmts
  /\ issued' = [issued EXCEPT ![f] = @ + 1]
  /\ run(f)
  /\ UNCHANGED <<otherVars, semVars, engineErr, streamed, kind, interruptible,
                 cancelledAt, exit, finalizers>>

\* executeValues(sql, params): run(sql, params), rows mapped to value tuples.
executeValues(f) ==
  /\ CanCall(f)
  /\ issued[f] < MaxStmts
  /\ issued' = [issued EXCEPT ![f] = @ + 1]
  /\ run(f)
  /\ UNCHANGED <<otherVars, semVars, engineErr, streamed, kind, interruptible,
                 cancelledAt, exit, finalizers>>

\* executeUnprepared(sql, params, transformRows): this.execute(...)
executeUnprepared(f) == execute(f)

\* Faulty variant: executeStream() yields an empty stream.
executeStreamEmpty(f) ==
  /\ CanCall(f)
  /\ streamed' = [streamed EXCEPT ![f] = TRUE]
  /\ exit' = [exit EXCEPT ![f] = "success"]
  /\ pc' = [pc EXCEPT ![f] = "closing"]
  /\ UNCHANGED <<otherVars, semVars, inflight, calls, issued, engineErr, running, kind,
                 interruptible, cancelledAt, finalizers>>

\* executeStream(): Effect.dieMessage("executeStream not implemented")
executeStream(f) ==
  /\ CanCall(f)
  /\ streamed' = [streamed EXCEPT ![f] = TRUE]
  /\ exit' = [exit EXCEPT ![f] = "die"]
  /\ pc' = [pc EXCEPT ![f] = "closing"]
  /\ UNCHANGED <<otherVars, semVars, inflight, calls, issued, engineErr, running, kind,
                 interruptible, cancelledAt, finalizers>>

----------------------------------------------------------------------------
(* Transactions and interruption *)

\* Between two statements the transaction's own code may suspend.
suspend(f) ==
  /\ running = f
  /\ kind[f] = "txn"
  /\ pc[f] = "connected"
  /\ pc' = [pc EXCEPT ![f] = "suspended"]
  /\ running' = None
  /\ UNCHANGED <<otherVars, semVars, engVars, kind, interruptible, cancelledAt, exit, finalizers>>

\* A suspended transaction resumes; an interruption received meanwhile ends it.
txnResume(f) ==
  /\ running = None
  /\ pc[f] = "suspended"
  /\ running' = f
  /\ IF cancelledAt[f] # "none"
       THEN /\ pc' = [pc EXCEPT ![f] = "closing"]
            /\ exit' = [exit EXCEPT ![f] = "interrupt"]
       ELSE /\ pc' = [pc EXCEPT ![f] = "ready"]
            /\ UNCHANGED exit
  /\ UNCHANGED <<otherVars, semVars, engVars, kind, interruptible, cancelledAt, finalizers>>

\* The transaction's body completes normally.
commit(f) ==
  /\ CanCall(f)
  /\ kind[f] = "txn"
  /\ pc' = [pc EXCEPT ![f] = "closing"]
  /\ exit' = [exit EXCEPT ![f] = "success"]
  /\ UNCHANGED <<otherVars, semVars, engVars, running, kind, interruptible, cancelledAt, finalizers>>

\* A suspended fiber is interrupted. A fiber in an interruptible wait for the
\* permit leaves the waiters at once and ends; otherwise the interruption is
\* noticed at the fiber's next interruptible point.
interrupt(f) ==
  /\ ~JsBlocked
  /\ running # f
  /\ pc[f] \in {"waiting", "granted", "suspended"}
  /\ cancelledAt[f] = "none"
  /\ cancelledAt' = [cancelledAt EXCEPT ![f] = pc[f]]
  /\ IF pc[f] = "waiting" /\ interruptible[f]
       THEN /\ waiters' = waiters \ {f}
            /\ pc' = [pc EXCEPT ![f] = "done"]
            /\ exit' = [exit EXCEPT ![f] = "interrupt"]
       ELSE UNCHANGED <<waiters, pc, exit>>
  /\ UNCHANGED <<otherVars, taken, acquires, releases, engVars, running, kind,
                 interruptible, finalizers>>

----------------------------------------------------------------------------
(* Specifications *)

\* Steps the runtime, the engine and the callers' code take by themselves.
Progress ==
  \E f \in Fibers :
    \/ acquirer(f)
    \/ transactionAcquirer(f)
    \/ grant(f)
    \/ resume(f)
    \/ execute(f)
    \/ executeRaw(f)
    \/ executeValues(f)
    \/ executeUnprepared(f)
    \/ executeStream(f)
    \/ \E ok \in BOOLEAN : getAllSyncReturns(f, ok)
    \/ suspend(f)
    \/ txnResume(f)
    \/ commit(f)
    \/ closeScope(f)

\* Steps of the environment: a caller starts, a fiber is interrupted.
Environment ==
  \E f \in Fibers :
    \/ \E k \in Kinds : Start(f, k)
    \/ interrupt(f)

Next == Progress \/ Environment

Spec == Init /\ [][Next]_vars

\* Fair scheduling: a step of the runtime that stays possible is taken.
FairSpec == Spec /\ WF_vars(Progress)

----------------------------------------------------------------------------
(* The Database Handle: make, makeConnection and the close finalizer *)

\* State before the first make(options): dbRef is undefined, no handle is open.
LifeInit ==
  /\ GateInit
  /\ FnIdle
  /\ dbRef = FALSE
  /\ open = {}
  /\ opened = 0
  /\ openCalls = 0
  /\ mk = [m \in Makes |-> "idle"]
  /\ conn = [m \in Makes |-> Undefined]
  /\ fin = [m \in Makes |-> FALSE]
  /\ skipped = [m \in Makes |-> FALSE]
  /\ closeRuns = [m \in Makes |-> 0]
  /\ closeThrew = [m \in Makes |-> FALSE]
  /\ raised = FALSE
  /\ yielded = [m \in Makes |-> "none"]

\* Faulty variant: makeConnection without the test of dbRef.
makeConnectionNoGuard(m, openOk) ==
  /\ dbRef' = TRUE
  /\ openCalls' = openCalls + 1
  /\ UNCHANGED skipped
  /\ IF openOk
       THEN /\ opened' = opened + 1
            /\ open' = open \cup {opened + 1}
            /\ conn' = [conn EXCEPT ![m] = opened + 1]
            /\ fin' = [fin EXCEPT ![m] = TRUE]
            /\ mk' = [mk EXCEPT ![m] = "live"]
       ELSE /\ mk' = [mk EXCEPT ![m] = "failed"]
            /\ UNCHANGED <<opened, open, conn, fin>>

\* const makeConnection = Effect.gen(function*() {
\*   if (dbRef) return
\*   dbRef = true
\*   const db = ExpoSqlite.openDatabaseSync(options.database)
\*   yield* Effect.addFinalizer(...)
\*   return { execute, ... } })
\* openOk: openDatabaseSync returns a handle; otherwise it throws, and the
\* exception ends make before the finalizer is added.
makeConnection(m, openOk) ==
  IF dbRef
    THEN /\ skipped' = [skipped EXCEPT ![m] = TRUE]
         /\ mk' = [mk EXCEPT ![m] = "live"]
         /\ UNCHANGED <<dbRef, open, opened, openCalls, conn, fin>>
    ELSE /\ dbRef' = TRUE
         /\ openCalls' = openCalls + 1
         /\ UNCHANGED skipped
         /\ IF openOk
              THEN /\ opened' = opened + 1
                   /\ open' = open \cup {opened + 1}
                   /\ conn' = [conn EXCEPT ![m] = opened + 1]
                   /\ fin' = [fin EXCEPT ![m] = TRUE]
                   /\ mk' = [mk EXCEPT ![m] = "live"]
              ELSE /\ mk' = [mk EXCEPT ![m] = "failed"]
                   /\ UNCHANGED <<opened, open, conn, fin>>

\* make(options) runs in a scope of its own; make calls are numbered in the
\* order they run. The semaphore and the client are built around whatever
\* makeConnection returned.
make(m, openOk) ==
  /\ mk[m] = "idle"
  /\ \A g \in Makes : g < m => mk[g] # "idle"
  /\ makeConnection(m, openOk)
  /\ UNCHANGED <<closeRuns, closeThrew, raised, yielded, gateVars, fnVars>>

\* Faulty variant: the finalizer without try/catch around db.closeSync().
closeFinalizerNoCatch(m, throws, stays) ==
  /\ open' = IF throws /\ stays THEN open ELSE open \ {conn[m]}
  /\ closeThrew' = [closeThrew EXCEPT ![m] = @ \/ throws]
  /\ raised' = (raised \/ throws)
  /\ dbRef' = IF throws THEN dbRef ELSE FALSE
  /\ closeRuns' = [closeRuns EXCEPT ![m] = @ + 1]

\* Effect.sync(() => { try { db.closeSync() } catch {}; dbRef = false })
\* throws: db.closeSync throws; stays: the handle it failed to close is still
\* open in the engine.
closeFinalizer(m, throws, stays) ==
  /\ open' = IF throws /\ stays THEN open ELSE open \ {conn[m]}
  /\ closeThrew' = [closeThrew EXCEPT ![m] = @ \/ throws]
  /\ UNCHANGED raised
  /\ dbRef' = FALSE
  /\ closeRuns' = [closeRuns EXCEPT ![m] = @ + 1]

\* The scope in which make ran closes: its close finalizer, if it has one,
\* runs once.
closeMakeScope(m, throws, stays) ==
  /\ mk[m] \in {"live", "failed"}
  /\ mk' = [mk EXCEPT ![m] = "closed"]
  /\ IF fin[m]
       THEN /\ closeFinalizer(m, throws, stays)
            /\ fin' = [fin EXCEPT ![m] = FALSE]
       ELSE UNCHANGED <<open, closeThrew, raised, dbRef, closeRuns, fin>>
  /\ UNCHANGED <<opened, openCalls, conn, skipped, yielded, gateVars, fnVars>>

\* The close step of a closed scope is run a second time, before a later make
\* has set the flag again.
closeAgain(m, throws, stays) ==
  /\ mk[m] = "closed"
  /\ closeRuns[m] = 1
  /\ ~dbRef
  /\ closeFinalizer(m, throws, stays)
  /\ UNCHANGED <<opened, openCalls, mk, conn, fin, skipped, yielded, gateVars, fnVars>>

\* const connection = yield* makeConnection: what both acquirers of client m
\* yield, Effect.succeed(connection) and Effect.as(..., connection).
connection(m) == conn[m]

\* A caller of client m runs one of its acquirers and gets its connection.
useClient(m) ==
  /\ mk[m] = "live"
  /\ yielded' = [yielded EXCEPT ![m] =
                   IF connection(m) = Undefined THEN "undefined"
                   ELSE IF connection(m) \in open THEN "open" ELSE "closed"]
  /\ UNCHANGED <<dbRef, open, opened, openCalls, mk, conn, fin, skipped,
                 closeRuns, closeThrew, raised, gateVars, fnVars>>

LifeNext ==
  \E m \in Makes :
    \/ \E openOk \in BOOLEAN : make(m, openOk)
    \/ \E throws, stays \in BOOLEAN : closeMakeScope(m, throws, stays)
    \/ \E throws, stays \in BOOLEAN : closeAgain(m, throws, stays)
    \/ useClient(m)

LifeSpec == LifeInit /\ [][LifeNext]_vars

(***************************************************************************)
(* The statement operations as functions of their arguments and of what    *)
(* db.getAllSync answers.                                                  *)
(***************************************************************************)

\* Column names and column values of result rows.
ColumnNames == {"a", "b"}
ColumnValues == {1, 2}
\* SQL texts and parameter lists handed to the operations.
SqlTexts == {"q1", "q2"}
ParamLists == {[given |-> FALSE, list |-> <<>>], [given |-> TRUE, list |-> <<1>>]}
\* Row transforms: none passed, or one that renames every column.
Transforms == {"none", "rename"}
FnOps == {"execute", "executeUnprepared", "executeValues"}

\* A row object: its keys in insertion order, each with its value.
RowObjects ==
  {<<<<k, v>>>> : k \in ColumnNames, v \in ColumnValues}
    \cup {row \in (ColumnNames \X ColumnValues) \X (ColumnNames \X ColumnValues) :
            row[1][1] # row[2][1]}

RowLists == UNION {[1..n -> RowObjects] : n \in 0..MaxRows}

\* What db.getAllSync does with the statement: throws, or returns rows.
EngineAnswers ==
  {[throws |-> TRUE, rows |-> <<>>]} \cup {[throws |-> FALSE, rows |-> rs] : rs \in RowLists}

FnInputs == [sql : SqlTexts, params : ParamLists, transformRows : Transforms,
             engine : EngineAnswers]

NotCalled == [calls |-> <<>>, tag |-> "none", val |-> <<>>]

\* Object.keys(row)
ObjectKeys(row) == [i \in 1..Len(row) |-> row[i][1]]

\* row[column]
Lookup(row, column) ==
  IF \E i \in 1..Len(row) : row[i][1] = column
    THEN row[CHOOSE i \in 1..Len(row) : row[i][1] = column][2]
    ELSE Undefined

\* The row transform passed by the SQL client: renames every column.
rename(k) == IF k = "a" THEN "A" ELSE "B"
transformRows(rows) ==
  [r \in 1..Len(rows) |-> [i \in 1..Len(rows[r]) |-> <<rename(rows[r][i][1]), rows[r][i][2]>>]]

\* Effect.map(effect, f), mapped being f of the effect's value: a success
\* carries mapped, a failure stays as it is.
EffectMap(effect, mapped) ==
  IF effect.tag = "throw" THEN effect ELSE [effect EXCEPT !.val = mapped]

\* run(sql, params = []): one db.getAllSync(sql, ...params).
runFn(sql, params, engine) ==
  LET args == IF params.given THEN params.list ELSE <<>>
  IN  [calls |-> <<[sql |-> sql, args |-> args]>>,
       tag |-> IF engine.throws THEN "throw" ELSE "rows",
       val |-> IF engine.throws THEN <<>> ELSE engine.rows]

executeFn(sql, params, tr, engine) ==
  IF tr # "none"
    THEN EffectMap(runFn(sql, params, engine),
                   transformRows(runFn(sql, params, engine).val))
    ELSE runFn(sql, params, engine)

\* Faulty variant: the row transform is not handed on.
executeUnpreparedNoTransform(sql, params, tr, engine) ==
  executeFn(sql, params, "none", engine)

\* this.execute(sql, params, transformRows)
executeUnpreparedFn(sql, params, tr, engine) ==
  executeFn(sql, params, tr, engine)

\* Faulty variant: every row is listed by its own keys.
valuesOfOwnKeys(results) ==
  [r \in 1..Len(results) |->
     [c \in 1..Len(results[r]) |-> Lookup(results[r], ObjectKeys(results[r])[c])]]

\* The function executeValues maps over the rows.
valuesOf(results) ==
  IF Len(results) = 0
    THEN <<>>
    ELSE LET columns == ObjectKeys(results[1])
         IN  [r \in 1..Len(results) |->
                [c \in 1..Len(columns) |-> Lookup(results[r], columns[c])]]

executeValuesFn(sql, params, engine) ==
  EffectMap(runFn(sql, params, engine), valuesOf(runFn(sql, params, engine).val))

\* One live client; the arguments and the engine's answer are chosen.
FnInit ==
  /\ GateInit
  /\ OneLiveClient
  /\ fnPhase = "input"
  /\ fnIn \in FnInputs
  /\ fnOut = [op \in FnOps |-> NotCalled]

callFn(op, result) ==
  /\ fnPhase \in {"input", "done"}
  /\ fnOut[op] = NotCalled
  /\ fnOut' = [fnOut EXCEPT ![op] = result]
  /\ fnPhase' = "done"
  /\ UNCHANGED <<fnIn, gateVars, lifeVars>>

callExecute ==
  callFn("execute", executeFn(fnIn.sql, fnIn.params, fnIn.transformRows, fnIn.engine))

callExecuteUnprepared ==
  callFn("executeUnprepared",
         executeUnpreparedFn(fnIn.sql, fnIn.params, fnIn.transformRows, fnIn.engine))

callExecuteValues ==
  callFn("executeValues", executeValuesFn(fnIn.sql, fnIn.params, fnIn.engine))

FnNext == callExecute \/ callExecuteUnprepared \/ callExecuteValues

FnSpec == FnInit /\ [][FnNext]_vars

----------------------------------------------------------------------------
(* Properties *)

\* The transaction acquirer has yielded the connection to t and t's scope has
\* not closed yet.
InTxn(t) ==
  /\ kind[t] = "txn"
  /\ pc[t] \in {"connected", "suspended", "ready", "inEngine", "closing"}

\* C1: mutual exclusion of engine calls. In every reachable state at most one
\* db.getAllSync call is in flight against the Database Handle, however many
\* callers use the statement acquirer and the transaction acquirer.
C1_MutualExclusion == Cardinality(inflight) <= 1

\* A statement's engine call is in flight while another caller waits for the
\* permit.
C1_Witness ==
  \E f, g \in Fibers :
    /\ f # g
    /\ kind[f] = "stmt"
    /\ f \in inflight
    /\ pc[g] = "waiting"

\* C2: transaction isolation. While a caller's transaction is open (from the
\* connection being yielded until its scope closes) no statement of another
\* caller that came through the statement acquirer executes against the engine.
C2_TransactionIsolation ==
  \A t, s \in Fibers :
    (InTxn(t) /\ s # t /\ kind[s] = "stmt") => s \notin inflight

\* A transaction executes its second statement while a statement caller waits.
C2_Witness ==
  \E t, s \in Fibers :
    /\ InTxn(t)
    /\ issued[t] >= 2
    /\ t \in inflight
    /\ kind[s] = "stmt"
    /\ pc[s] = "waiting"

\* C3: the statement acquirer holds the permit for the duration of one
\* statement: from the connection being yielded until the statement executed on
\* it has completed, the caller still holds the permit.
C3_PermitHeldForStatement ==
  \A f \in Fibers :
    (kind[f] = "stmt" /\ pc[f] \in {"connected", "inEngine"}) => Holds(f)

\* C4: exactly-once scoped release for transactions. Every successful
\* acquisition by the transaction acquirer has one release finalizer on the
\* scope; the permit is not released before the scope closes, and has been
\* released exactly once when it has closed, however the scope exits.
C4_ExactlyOnceRelease ==
  \A f \in Fibers :
    kind[f] = "txn" =>
      /\ releases[f] <= acquires[f]
      /\ pc[f] = "done" => releases[f] = acquires[f]
      /\ pc[f] # "done" => releases[f] = 0
      /\ InTxn(f) => finalizers[f] = 1

\* Three transactions have closed, by completion, by a defect and by
\* interruption, each having released the permit once.
C4_Witness ==
  \E a, b, c \in Fibers :
    /\ \A f \in {a, b, c} :
         kind[f] = "txn" /\ pc[f] = "done" /\ acquires[f] = 1 /\ releases[f] = 1
    /\ exit[a] = "success"
    /\ exit[b] = "die"
    /\ exit[c] = "interrupt"

\* C5: no permit leak under cancellation of a transaction acquisition. When a
\* cancelled transaction fiber has left the acquisition, either it never took
\* the permit, or the release finalizer is registered on its scope, or the
\* release has already run.
C5_NoLeakOnCancel ==
  \A f \in Fibers :
    (kind[f] = "txn" /\ cancelledAt[f] # "none" /\ pc[f] \in {"closing", "done"})
      => \/ acquires[f] = 0
         \/ finalizers[f] = 1
         \/ releases[f] = 1

\* A transaction fiber was interrupted after it was handed the permit and
\* before it registered the finalizer, and the finalizer is registered.
C5_Witness ==
  \E f \in Fibers :
    /\ kind[f] = "txn"
    /\ cancelledAt[f] = "granted"
    /\ pc[f] = "closing"
    /\ finalizers[f] = 1

\* C6: a cancelled waiter never holds the permit. A caller interrupted while
\* it waits for the permit ends without having taken it, is no longer among
\* the waiters, and so is not granted the permit afterwards.
C6_CancelledWaiterNeverHolds ==
  \A f \in Fibers :
    cancelledAt[f] = "waiting" =>
      /\ acquires[f] = 0
      /\ f \notin waiters
      /\ pc[f] = "done"
      /\ exit[f] = "interrupt"

\* A statement caller and a transaction caller were both cancelled while
\* waiting, and the permit they waited for has since been released.
C6_Witness ==
  \E f, g \in Fibers :
    /\ kind[f] = "stmt" /\ cancelledAt[f] = "waiting"
    /\ kind[g] = "txn" /\ cancelledAt[g] = "waiting"
    /\ taken = 0

\* C7: no deadlock after cancellation. Under fair scheduling, and with every
\* transaction eventually closing its scope, the system settles in a state
\* where every caller that asked for the permit and was not cancelled while
\* waiting for it has been given it, also after a statement caller was
\* cancelled while holding it.
C7_NoDeadlock ==
  <>[](\A f \in Fibers :
         (pc[f] # "idle" /\ cancelledAt[f] # "waiting") => acquires[f] = 1)

\* A statement caller was cancelled while it held the permit, the permit was
\* released, and another caller holds it now.
C7_Witness ==
  \E s, g \in Fibers :
    /\ s # g
    /\ kind[s] = "stmt"
    /\ cancelledAt[s] = "granted"
    /\ releases[s] = 1
    /\ pc[g] = "taken"

\* C8: errors never leak the permit. A caller whose engine call failed holds
\* no permit and has no pending finalizer once its unit of work or scope is
\* over, and once every caller is over the permit is available again.
C8_ErrorsNeverLeak ==
  /\ \A f \in Fibers :
       (engineErr[f] /\ pc[f] = "done") => (~Holds(f) /\ finalizers[f] = 0)
  /\ ((\E f \in Fibers : engineErr[f]) /\ (\A f \in Fibers : pc[f] \in {"idle", "done"}))
       => free = Permits

\* A statement and a transaction both failed in the engine and are over.
C8_Witness ==
  \E s, t \in Fibers :
    /\ kind[s] = "stmt" /\ engineErr[s] /\ pc[s] = "done"
    /\ kind[t] = "txn" /\ engineErr[t] /\ pc[t] = "done"
    /\ free = Permits

\* C9: engine-level errors are recoverable errors. A caller whose engine call
\* failed receives a typed failure, and the engine was called once per
\* statement.
C9_EngineErrorRecoverable ==
  \A f \in Fibers :
    /\ calls[f] = issued[f]
    /\ engineErr[f] => exit[f] = "fail"

\* C10: unsupported streaming. A caller that invoked executeStream ends with a
\* defect, never with a result, and executeStream made no engine call.
C10_UnsupportedStreaming ==
  \A f \in Fibers :
    streamed[f] =>
      /\ exit[f] = "die"
      /\ calls[f] = issued[f]
      /\ f \notin inflight

\* executeStream was invoked inside a transaction, after a statement, and the
\* transaction is over.
C10_Witness ==
  \E f \in Fibers :
    /\ streamed[f]
    /\ kind[f] = "txn"
    /\ issued[f] >= 1
    /\ pc[f] = "done"

\* C11: best-effort close. A close finalizer never raises, whether
\* db.closeSync returns or throws; every run of it, the first and a repeated
\* one, leaves dbRef cleared; and a make that runs with dbRef cleared opens a
\* new handle when the engine returns one.
C11_BestEffortClose ==
  [][/\ ~raised'
     /\ \A m \in Makes : closeRuns'[m] > closeRuns[m] => ~dbRef'
     /\ \A m \in Makes :
          (mk[m] = "idle" /\ mk'[m] = "live" /\ ~dbRef)
            => (opened' = opened + 1 /\ conn'[m] = opened' /\ conn'[m] \in open')
    ]_vars

\* db.closeSync threw in a close finalizer, the close step ran twice, nothing
\* was raised, and a later make has opened a new handle.
C11_Witness ==
  \E m, g \in Makes :
    /\ m < g
    /\ closeThrew[m]
    /\ closeRuns[m] = 2
    /\ ~raised
    /\ mk[g] = "live"
    /\ conn[g] \in open
    /\ conn[g] # conn[m]

\* What C12 says of a make call that ran while dbRef was set: it made no call
\* of openDatabaseSync, did not fail, and has no connection and no close
\* finalizer.
SkippedMakesDoNothing ==
  /\ \A m \in Makes :
       skipped[m] =>
         (conn[m] = Undefined /\ ~fin[m] /\ mk[m] # "failed" /\ closeRuns[m] = 0)
  /\ openCalls = Cardinality({m \in Makes : mk[m] # "idle" /\ ~skipped[m]})

\* C12 as claimed: single handle. At most one engine handle is open at any
\* instant, and a make call performed while dbRef is set does nothing.
C12_SingleOpenHandle ==
  /\ Cardinality(open) <= 1
  /\ SkippedMakesDoNothing

\* C12 as amended: at most one engine handle has a pending close finalizer at
\* any instant, and that handle is open; a make call performed while dbRef is
\* set does nothing, and neither it nor the closing of its scope changes dbRef
\* or the open handles.
C12_SingleTrackedHandle ==
  /\ [](/\ Cardinality({m \in Makes : fin[m]}) <= 1
        /\ \A m \in Makes : fin[m] => (conn[m] \in open /\ dbRef)
        /\ SkippedMakesDoNothing)
  /\ [][\A m \in Makes :
          (skipped'[m] /\ mk'[m] # mk[m]) => (dbRef' = dbRef /\ open' = open)
       ]_vars

\* A make call was skipped and its scope has closed, while the handle of an
\* earlier make is still open with its finalizer pending.
C12_Witness ==
  \E m, g \in Makes :
    /\ skipped[m]
    /\ mk[m] = "closed"
    /\ fin[g]
    /\ conn[g] \in open
    /\ dbRef

\* C13: every connection is backed by the single Database Handle. Whatever
\* client make returned, also one made while another client's handle is open,
\* its acquirers yield a connection whose operations run against the open
\* handle.
C13_ConnectionBackedByHandle ==
  \A m \in Makes :
    (mk[m] = "live" /\ yielded[m] # "none" /\ open # {}) => yielded[m] = "open"

\* C14: reentrant transaction access. From the connection being yielded by the
\* transaction acquirer until the scope closes, the holder keeps the one
\* permit it took (the permit count stays 0), and its statements neither take
\* the permit again nor wait for it.
C14_ReentrantTransaction ==
  \A t \in Fibers :
    /\ InTxn(t) => (free = 0 /\ Holds(t) /\ acquires[t] = 1)
    /\ (kind[t] = "txn" /\ acquires[t] = 1) => (pc[t] # "waiting" /\ t \notin waiters)

\* A transaction has run two statements, suspended and resumed in between, and
\* still holds the permit.
C14_Witness ==
  \E t \in Fibers :
    /\ InTxn(t)
    /\ issued[t] >= 2
    /\ pc[t] = "ready"
    /\ free = 0

\* C15: executeValues takes the column order from the first row only. With no
\* rows the result is the empty list; otherwise there is one tuple per row, in
\* row order, and each tuple holds that row's values at the first row's keys in
\* the first row's key order: a key only later rows have is dropped, a key a
\* later row lacks gives an undefined entry.
C15_ColumnsFromFirstRow ==
  (fnPhase = "done" /\ fnOut["executeValues"].tag = "rows") =>
    LET rows == fnIn.engine.rows
        out == fnOut["executeValues"].val
    IN  /\ rows = <<>> => out = <<>>
        /\ Len(out) = Len(rows)
        /\ \A r \in 1..Len(rows) :
             /\ Len(out[r]) = Len(rows[1])
             /\ \A j \in 1..Len(rows[1]) :
                  LET hits == {i \in 1..Len(rows[r]) : rows[r][i][1] = rows[1][j][1]}
                  IN  IF hits = {}
                        THEN out[r][j] = Undefined
                        ELSE \E i \in hits : out[r][j] = rows[r][i][2]

\* executeValues has answered for two rows of which the second lacks the
\* first's key and has a key of its own.
C15_Witness ==
  /\ fnPhase = "done"
  /\ fnOut["executeValues"].tag = "rows"
  /\ Len(fnIn.engine.rows) = 2
  /\ Len(fnIn.engine.rows[1]) = 1
  /\ Len(fnIn.engine.rows[2]) = 1
  /\ fnIn.engine.rows[1][1][1] # fnIn.engine.rows[2][1][1]
  /\ fnOut["executeValues"].val[2] = <<Undefined>>

\* C16: executeUnprepared is equivalent to execute. For the same sql text,
\* parameter list and optional row transform both make the one engine call
\* getAllSync(sql, ...params) and give the same rows or the same failure.
C16_UnpreparedEqualsExecute ==
  (fnOut["execute"] # NotCalled /\ fnOut["executeUnprepared"] # NotCalled) =>
    /\ fnOut["executeUnprepared"] = fnOut["execute"]
    /\ Len(fnOut["executeUnprepared"].calls) = 1
    /\ fnOut["executeUnprepared"].calls[1].sql = fnIn.sql
    /\ fnOut["executeUnprepared"].calls[1].args = fnIn.params.list

\* Both were called with a row transform on an answer of two rows.
C16_Witness ==
  /\ fnOut["execute"].tag = "rows"
  /\ fnOut["executeUnprepared"].tag = "rows"
  /\ fnIn.transformRows = "rename"
  /\ fnIn.params.given
  /\ Len(fnIn.engine.rows) = 2
  /\ fnOut["executeUnprepared"].val # fnIn.engine.rows

\* Statement acquirers inside their withPermits section: the permit is taken
\* and not yet released.
StmtInSection == {f \in Fibers : kind[f] = "stmt" /\ pc[f] \in {"granted", "taken"}}

\* Open transaction scopes with a pending release finalizer.
TxnPendingRelease == {f \in Fibers : kind[f] = "txn" /\ finalizers[f] = 1}

\* Transaction acquirers that have taken the permit and have not yet
\* registered the release finalizer.
TxnHandOff == {f \in Fibers : kind[f] = "txn" /\ pc[f] \in {"granted", "taken"}}

\* C17 as stated: the available permits are 0 or 1, and together with the
\* holders, statement acquirers inside withPermits and open transaction scopes
\* with a pending release, they make 1.
C17_PermitConservation ==
  /\ free \in {0, 1}
  /\ free <= Permits
  /\ free + Cardinality(StmtInSection \cup TxnPendingRelease) = 1

\* C17: permit conservation. The available permits are 0 or 1 and never above
\* the capacity; the available permits plus the holders make 1, the holders
\* being the statement acquirers inside withPermits, the open transaction
\* scopes with a pending release, and the transaction acquirers that took the
\* permit and have not yet registered the release. The holders are exactly the
\* fibers with an acquisition not yet released.
C17_PermitConservationWithHandOff ==
  /\ free \in {0, 1}
  /\ free <= Permits
  /\ free + Cardinality(StmtInSection \cup TxnPendingRelease \cup TxnHandOff) = 1
  /\ StmtInSection \cup TxnPendingRelease \cup TxnHandOff = {f \in Fibers : Holds(f)}

\* A transaction acquirer was handed the permit a finished statement gave
\* back and has not resumed to register its release.
C17_Witness ==
  \E s, t \in Fibers :
    /\ kind[s] = "stmt" /\ pc[s] = "done"
    /\ kind[t] = "txn" /\ pc[t] = "granted" /\ finalizers[t] = 0
    /\ free = 0

\* C18: open-flag consistency. dbRef is set exactly when an engine handle is
\* open with its close finalizer pending, and once every scope in which make
\* ran has closed the flag is cleared.
C18_OpenFlagConsistent ==
  /\ dbRef <=> (\E m \in Makes : fin[m] /\ conn[m] \in open)
  /\ (\A m \in Makes : mk[m] \in {"idle", "closed"}) => ~dbRef

====
